---- MODULE Spec2Model ----
(***************************************************************************)
(* A model of the EventSource client (Server-Sent Events over HTTP):       *)
(* the incremental text/event-stream parser of the response 'data'         *)
(* handler and the connection lifecycle (connect, response callback,       *)
(* onConnectionClosed, reconnect timer, redirect follow, close).           *)
(*                                                                         *)
(* Buffers are sequences of byte values; JavaScript strings are sequences  *)
(* of code points (Decode is Buffer.toString()).  JavaScript indexes from  *)
(* 0, TLA+ from 1: At and Slice do the shift.                              *)
(***************************************************************************)
EXTENDS Integers, Sequences, FiniteSets, TLC

(* ---------------------------------------------------------------------- *)
(* Program constants                                                      *)
(* ---------------------------------------------------------------------- *)
bom == <<239, 187, 191>>
colon == 58
space == 32
lineFeed == 10
carriageReturn == 13

CONNECTING == 0
OPEN == 1
CLOSED == 2

DefaultReconnectInterval == 1000

(* The value of a JavaScript variable that holds undefined: no string.    *)
undefined == <<-1>>
(* Number.NaN, the result of parseInt on a string with no digits.         *)
NaN == -999999

(* The code points of the string literals the parser compares with.       *)
StrData == <<100, 97, 116, 97>>
StrEvent == <<101, 118, 101, 110, 116>>
StrId == <<105, 100>>
StrRetry == <<114, 101, 116, 114, 121>>
StrMessage == <<109, 101, 115, 115, 97, 103, 101>>
StrOpen == <<111, 112, 101, 110>>
StrError == <<101, 114, 114, 111, 114>>

(* ---------------------------------------------------------------------- *)
(* Buffer and string helpers                                              *)
(* ---------------------------------------------------------------------- *)
(* buf[i] of JavaScript: the byte at 0-based index i, or -1 (undefined)   *)
At(buf, i) == IF i >= 0 /\ i < Len(buf) THEN buf[i + 1] ELSE -1

(* buf.slice(a, b) for 0 <= a: 0-based, b exclusive, clamped to the end   *)
Slice(buf, a, b) ==
    LET e == IF b > Len(buf) THEN Len(buf) ELSE b
    IN  IF a >= e THEN <<>> ELSE SubSeq(buf, a + 1, e)

(* Buffer.toString(): UTF-8 decoding.  ASCII bytes decode to themselves,  *)
(* EF BB BF to U+FEFF, and an ill-formed subsequence to one U+FFFD per    *)
(* maximal subpart (EF, or EF BB, not followed by its continuation; a     *)
(* lone continuation byte).                                               *)
RECURSIVE Decode(_)
Decode(b) ==
    IF b = <<>> THEN <<>>
    ELSE IF b[1] < 128 THEN <<b[1]>> \o Decode(Tail(b))
    ELSE IF b[1] = 239 /\ Len(b) >= 2 /\ b[2] = 187
         THEN IF Len(b) >= 3 /\ b[3] = 191
              THEN <<65279>> \o Decode(SubSeq(b, 4, Len(b)))
              ELSE <<65533>> \o Decode(SubSeq(b, 3, Len(b)))
    ELSE <<65533>> \o Decode(Tail(b))

IsDigit(c) == c >= 48 /\ c <= 57

RECURSIVE SkipWhite(_)
SkipWhite(s) ==
    IF s # <<>> /\ s[1] \in {32, 9, 11, 12, 160, 65279} THEN SkipWhite(Tail(s)) ELSE s

RECURSIVE DigitsValue(_, _)
DigitsValue(s, acc) ==
    IF s # <<>> /\ IsDigit(s[1]) THEN DigitsValue(Tail(s), 10 * acc + (s[1] - 48)) ELSE acc

(* parseInt(value, 10): leading white space is skipped, an optional sign, *)
(* then the longest run of digits; NaN when there is no digit.            *)
parseInt(value) ==
    LET t == SkipWhite(value)
        neg == t # <<>> /\ t[1] = 45
        u == IF t # <<>> /\ t[1] \in {43, 45} THEN Tail(t) ELSE t
    IN  IF u = <<>> \/ ~IsDigit(u[1]) THEN NaN
        ELSE IF neg THEN 0 - DigitsValue(u, 0) ELSE DigitsValue(u, 0)

hasBom(buf) == \A index \in 1..3 : At(buf, index - 1) = bom[index]

(* ---------------------------------------------------------------------- *)
(* The parser.  A parse state s is a record of the variables the 'data'   *)
(* handler and parseEventStreamLine read and write:                       *)
(*   per response: isFirst, buf, startingPos, startingFieldLength         *)
(*   per session : discardTrailingNewline, data, eventName, lastEventId,  *)
(*                 reconnectInterval                                      *)
(*   ev          : the _emit calls made, in order                         *)
(* ---------------------------------------------------------------------- *)
MessageEvent(type, data, lastEventId) ==
    [type |-> type, data |-> data, lastEventId |-> lastEventId]

(* A field dispatch that keeps lastEventId when an id: value is empty.    *)
parseFieldKeepingId(s, field, value) ==
    IF field = StrData THEN [s EXCEPT !.data = @ \o value \o <<lineFeed>>]
    ELSE IF field = StrEvent THEN [s EXCEPT !.eventName = value]
    ELSE IF field = StrId THEN
        IF value # <<>> THEN [s EXCEPT !.lastEventId = value] ELSE s
    ELSE IF field = StrRetry THEN
        LET retry == parseInt(value)
        IN  IF retry # NaN THEN [s EXCEPT !.reconnectInterval = retry] ELSE s
    ELSE s

(* The field dispatch of parseEventStreamLine.                            *)
parseField(s, field, value) ==
    IF field = StrData THEN [s EXCEPT !.data = @ \o value \o <<lineFeed>>]
    ELSE IF field = StrEvent THEN [s EXCEPT !.eventName = value]
    ELSE IF field = StrId THEN [s EXCEPT !.lastEventId = value]
    ELSE IF field = StrRetry THEN
        LET retry == parseInt(value)
        IN  IF retry # NaN THEN [s EXCEPT !.reconnectInterval = retry] ELSE s
    ELSE s

parseEventStreamLine(s, pos, fieldLength, lineLength) ==
    IF lineLength = 0 THEN
        IF Len(s.data) > 0 THEN
            LET type == IF s.eventName = undefined \/ s.eventName = <<>>
                        THEN StrMessage ELSE s.eventName
            IN  [s EXCEPT !.ev = Append(@, MessageEvent(type,
                                     Slice(s.data, 0, Len(s.data) - 1), s.lastEventId)),
                          !.data = <<>>,
                          !.eventName = undefined]
        ELSE [s EXCEPT !.eventName = undefined]
    ELSE IF fieldLength > 0 THEN
        LET noValue == fieldLength < 0
            field == Decode(Slice(s.buf, pos, pos + (IF noValue THEN lineLength ELSE fieldLength)))
            step == IF noValue THEN lineLength
                    ELSE IF At(s.buf, pos + fieldLength + 1) # space THEN fieldLength + 1
                    ELSE fieldLength + 2
            valueLength == lineLength - step
            value == Decode(Slice(s.buf, pos + step, pos + step + valueLength))
        IN  parseField(s, field, value)
    ELSE s

(* The for loop that looks for the end of the line: i runs from           *)
(* startingPos while lineLength < 0.                                      *)
RECURSIVE ScanLine(_, _, _, _, _, _)
ScanLine(buf, pos, i, lineLength, fieldLength, discard) ==
    IF lineLength < 0 /\ i < Len(buf) THEN
        LET c == At(buf, i)
        IN  IF c = colon THEN
                ScanLine(buf, pos, i + 1, lineLength,
                         IF fieldLength < 0 THEN i - pos ELSE fieldLength, discard)
            ELSE IF c = carriageReturn THEN
                ScanLine(buf, pos, i + 1, i - pos, fieldLength, TRUE)
            ELSE IF c = lineFeed THEN
                ScanLine(buf, pos, i + 1, i - pos, fieldLength, discard)
            ELSE ScanLine(buf, pos, i + 1, lineLength, fieldLength, discard)
    ELSE [lineLength |-> lineLength, fieldLength |-> fieldLength,
          discardTrailingNewline |-> discard]

(* The while (pos < length) loop; the result is the state with pos.       *)
RECURSIVE ParseLoop(_, _)
ParseLoop(s, pos0) ==
    IF pos0 < Len(s.buf) THEN
        LET pos == IF s.discardTrailingNewline /\ At(s.buf, pos0) = lineFeed
                   THEN pos0 + 1 ELSE pos0
            sc == ScanLine(s.buf, pos, s.startingPos, -1, s.startingFieldLength, FALSE)
        IN  IF sc.lineLength < 0 THEN
                [st |-> [s EXCEPT !.startingPos = Len(s.buf) - pos,
                                  !.startingFieldLength = sc.fieldLength,
                                  !.discardTrailingNewline = sc.discardTrailingNewline],
                 pos |-> pos]
            ELSE
                ParseLoop(parseEventStreamLine(
                              [s EXCEPT !.startingPos = 0,
                                        !.startingFieldLength = -1,
                                        !.discardTrailingNewline = sc.discardTrailingNewline],
                              pos, sc.fieldLength, sc.lineLength),
                          pos + sc.lineLength + 1)
    ELSE [st |-> s, pos |-> pos0]

(* res.on('data', function(chunk) ...)                                    *)
onData(s, chunk) ==
    LET joined == s.buf \o chunk
        buf0 == IF s.isFirst /\ hasBom(joined) THEN Slice(joined, 3, Len(joined)) ELSE joined
        r == ParseLoop([s EXCEPT !.buf = buf0, !.isFirst = FALSE], 0)
    IN  [r.st EXCEPT !.buf = IF r.pos = Len(buf0) THEN <<>>
                              ELSE IF r.pos > 0 THEN Slice(buf0, r.pos, Len(buf0))
                              ELSE buf0]

(* The parse state of a new EventSource on its first response.            *)
NewParse(lastEventId0) ==
    [isFirst |-> TRUE, buf |-> <<>>, startingPos |-> 0, startingFieldLength |-> -1,
     discardTrailingNewline |-> FALSE, data |-> <<>>, eventName |-> <<>>,
     lastEventId |-> lastEventId0, reconnectInterval |-> DefaultReconnectInterval,
     ev |-> <<>>]

(* ---------------------------------------------------------------------- *)
(* Bounds of the model                                                    *)
(* ---------------------------------------------------------------------- *)
(* requests one session issues (the constructor's connect() included)     *)
MaxRequests == 4
(* body chunks delivered to one session                                   *)
MaxChunks == 2
(* lines of an input stream given to the parser alone                     *)
MaxLines == 3

(* ---------------------------------------------------------------------- *)
(* State                                                                  *)
(* ---------------------------------------------------------------------- *)
VARIABLES
    (* the closure variables and properties of one EventSource *)
    readyState, url, reconnectUrl, lastEventId, reconnectInterval,
    connectionInProgress, req, discardTrailingNewline, data, eventName,
    (* the environment of the session *)
    conns,        \* every request issued: its transport phase and its response's parse variables
    timers,       \* the delays of the pending setTimeout callbacks (a multiset, kept sorted)
    nextTick,     \* the number of pending process.nextTick(connect) callbacks
    listeners,    \* the event types that have at least one subscriber
    errorCloses,  \* whether the error subscriber calls close()
    (* observation *)
    out,          \* the events dispatched to subscribers by the last step
    lastReq,      \* the url and Last-Event-ID header of the last request issued, and what issued it
    fed,          \* the number of chunks delivered
    closeCalled,  \* whether close() was called (by the user, a subscriber or the session itself)
    seen,         \* what the body bytes delivered so far say, read line by line
    fatal,        \* whether a response with a status that ends the session was handled
    redir,        \* the redirects followed since the last disconnect that was handled
    failedAt,     \* the number of requests issued when the last retryable failure was handled
    (* the parser alone: an input stream, what is left of it, the parse state *)
    plines, pstream, prest, pstate,
    (* the request options alone: the init dictionary, the options connect() builds *)
    initDict, options

svars == <<readyState, url, reconnectUrl, lastEventId, reconnectInterval,
           connectionInProgress, req, discardTrailingNewline, data, eventName,
           conns, timers, nextTick, listeners, errorCloses, out, lastReq, fed,
           closeCalled, seen, fatal, redir, failedAt>>
pvars == <<plines, pstream, prest, pstate, initDict, options>>
vars == <<svars, pvars>>

null == "null"
Urls == {"A", "B", "C"}
Locations == {"B", "C"}
StatusCodes == {200, 204, 301, 302, 307, 404, 500, 502, 503, 504}
AllTypes == {StrOpen, StrError, StrMessage, <<101>>}

(* One request: st is the phase of its transport,                         *)
(*   "await"   sent, no response yet                                      *)
(*   "open"    200 received: the response streams, its listeners are on   *)
(*   "idle"    another status received: the response is never read, the   *)
(*             socket lingers                                             *)
(*   "closing" the socket is destroyed, the response's 'close' is due     *)
(*   "abAwait" aborted before a response: the request's 'error' is due    *)
(*   "dead"    no callback of it fires any more                           *)
(* and the rest are the variables of its response callback.               *)
NewConn == [st |-> "await", isFirst |-> TRUE, buf |-> <<>>,
            startingPos |-> 0, startingFieldLength |-> -1]

SetPhase(c, phase) == [NewConn EXCEPT !.st = phase]

(* The session as one record, for the handlers to transform.             *)
Cur == [readyState |-> readyState, url |-> url, reconnectUrl |-> reconnectUrl,
        lastEventId |-> lastEventId, reconnectInterval |-> reconnectInterval,
        connectionInProgress |-> connectionInProgress, req |-> req,
        discardTrailingNewline |-> discardTrailingNewline, data |-> data,
        eventName |-> eventName, conns |-> conns, timers |-> timers,
        nextTick |-> nextTick, out |-> <<>>, lastReq |-> lastReq,
        closeCalled |-> closeCalled,
        listeners |-> listeners, errorCloses |-> errorCloses]

Commit(S) ==
  \E T \in {S} :
    /\ readyState' = T.readyState
    /\ url' = T.url
    /\ reconnectUrl' = T.reconnectUrl
    /\ lastEventId' = T.lastEventId
    /\ reconnectInterval' = T.reconnectInterval
    /\ connectionInProgress' = T.connectionInProgress
    /\ req' = T.req
    /\ discardTrailingNewline' = T.discardTrailingNewline
    /\ data' = T.data
    /\ eventName' = T.eventName
    /\ conns' = T.conns
    /\ timers' = T.timers
    /\ nextTick' = T.nextTick
    /\ out' = T.out
    /\ lastReq' = T.lastReq
    /\ closeCalled' = T.closeCalled
    /\ UNCHANGED <<listeners, errorCloses>>

(* req.abort(): the request's pending response is cancelled; what is left *)
(* is its 'error' (no response yet) or its response's 'close'.            *)
abort(cs, r) ==
    [cs EXCEPT ![r] = IF @.st = "await" THEN SetPhase(@, "abAwait")
                      ELSE IF @.st = "open" THEN SetPhase(@, "closing")
                      ELSE IF @.st = "idle" THEN SetPhase(@, "dead")
                      ELSE @]

close(S) ==
    IF S.readyState = CLOSED THEN [S EXCEPT !.closeCalled = TRUE]
    ELSE [S EXCEPT !.readyState = CLOSED, !.conns = abort(@, S.req),
                   !.closeCalled = TRUE]

(* An emit without the subscriber test: an 'error' event nobody listens   *)
(* to is thrown by the emitter and ends the session.                      *)
emitUnguarded(S, e) ==
    IF e.type \in S.listeners THEN
        LET S1 == [S EXCEPT !.out = Append(@, e)]
        IN  IF e.type = StrError /\ S.errorCloses THEN close(S1) ELSE S1
    ELSE IF e.type = StrError THEN close(S)
    ELSE S

(* _emit: dispatch is skipped when the type has no subscriber; the        *)
(* subscriber runs inside the call, and an error subscriber may close().  *)
emit(S, e) ==
    IF e.type \in S.listeners THEN
        LET S1 == [S EXCEPT !.out = Append(@, e)]
        IN  IF e.type = StrError /\ S.errorCloses THEN close(S1) ELSE S1
    ELSE S

ErrorEvent(message) == [type |-> StrError, message |-> message]
StatusErrorEvent(status) == [type |-> StrError, status |-> status, message |-> "statusMessage"]
OpenEvent == [type |-> StrOpen]

(* setTimeout(f, delay): one more pending timer                           *)
RECURSIVE Insert(_, _)
Insert(ts, d) ==
    IF ts = <<>> THEN <<d>>
    ELSE IF d <= ts[1] THEN <<d>> \o ts
    ELSE <<ts[1]>> \o Insert(Tail(ts), d)

(* A timer armed with the default delay, whatever retry: said.           *)
setTimeoutDefault(S) == [S EXCEPT !.timers = Insert(@, DefaultReconnectInterval)]

setTimeout(S) == [S EXCEPT !.timers = Insert(@, S.reconnectInterval)]

onConnectionClosed(S, message) ==
    IF S.readyState = CLOSED THEN S
    ELSE LET S1 == emit([S EXCEPT !.readyState = CONNECTING], ErrorEvent(message))
             S2 == IF S1.reconnectUrl # null
                   THEN [S1 EXCEPT !.url = S1.reconnectUrl, !.reconnectUrl = null]
                   ELSE S1
         IN  setTimeout(S2)

(* The Last-Event-ID header of a request: absent when lastEventId is ''.  *)
LastEventIdHeader(id) == IF id # <<>> THEN id ELSE undefined

(* connect(): a new request is issued for url and becomes req.            *)
connect(S, by) ==
    [S EXCEPT !.conns = Append(@, NewConn),
              !.req = Len(S.conns) + 1,
              !.lastReq = [url |-> S.url,
                           lastEventId |-> LastEventIdHeader(S.lastEventId),
                           by |-> by]]

(* The response callback of request c, branch by branch.                  *)
(* 500/502/503/504: an error with the status, then onConnectionClosed().  *)
onRetryableStatus(S, c, status) ==
    onConnectionClosed(
        emit([S EXCEPT !.conns[c] = SetPhase(@, "idle")], StatusErrorEvent(status)),
        "undefined")

(* A redirect branch that remembers the old url for every status.        *)
onRedirectStatusAlwaysTemporary(S, c, status, location) ==
    IF location = null THEN
        emit([S EXCEPT !.conns[c] = SetPhase(@, "idle")], StatusErrorEvent(status))
    ELSE [S EXCEPT !.conns[c] = SetPhase(@, "idle"),
                   !.reconnectUrl = S.url,
                   !.url = location,
                   !.nextTick = @ + 1]

(* A redirect branch that treats a missing Location as a disconnect.      *)
onRedirectStatusRetrying(S, c, status, location) ==
    IF location = null THEN
        onConnectionClosed(
            emit([S EXCEPT !.conns[c] = SetPhase(@, "idle")], StatusErrorEvent(status)),
            "undefined")
    ELSE [S EXCEPT !.conns[c] = SetPhase(@, "idle"),
                   !.reconnectUrl = IF status = 307 THEN S.url ELSE @,
                   !.url = location,
                   !.nextTick = @ + 1]

(* A redirect branch that keeps the url of the first 307 of a chain.      *)
onRedirectStatusKeepingFirst(S, c, status, location) ==
    IF location = null THEN
        emit([S EXCEPT !.conns[c] = SetPhase(@, "idle")], StatusErrorEvent(status))
    ELSE [S EXCEPT !.conns[c] = SetPhase(@, "idle"),
                   !.reconnectUrl = IF status = 307 /\ @ = null THEN S.url ELSE @,
                   !.url = location,
                   !.nextTick = @ + 1]

(* A redirect branch that follows one redirect only: the second one in a *)
(* row is an error that ends the session.                                 *)
onRedirectStatusGivingUp(S, c, status, location) ==
    IF location = null THEN
        emit([S EXCEPT !.conns[c] = SetPhase(@, "idle")], StatusErrorEvent(status))
    ELSE IF S.lastReq.by = "redirect" THEN
        close(emit([S EXCEPT !.conns[c] = SetPhase(@, "idle")], StatusErrorEvent(status)))
    ELSE [S EXCEPT !.conns[c] = SetPhase(@, "idle"),
                   !.reconnectUrl = IF status = 307 THEN S.url ELSE @,
                   !.url = location,
                   !.nextTick = @ + 1]

(* 301/302/307: without Location an error and nothing else; with it the   *)
(* url is replaced (a 307 keeps the old one in reconnectUrl) and          *)
(* connect() is deferred with process.nextTick.                           *)
onRedirectStatus(S, c, status, location) ==
    IF location = null THEN
        emit([S EXCEPT !.conns[c] = SetPhase(@, "idle")], StatusErrorEvent(status))
    ELSE [S EXCEPT !.conns[c] = SetPhase(@, "idle"),
                   !.reconnectUrl = IF status = 307 THEN S.url ELSE @,
                   !.url = location,
                   !.nextTick = @ + 1]

(* any other status but 200: an error with the status, then close()       *)
onOtherStatus(S, c, status) ==
    close(emit([S EXCEPT !.conns[c] = SetPhase(@, "idle")], StatusErrorEvent(status)))

(* 200: OPEN, the response's listeners are registered, 'open' dispatched  *)
onOkStatus(S, c) ==
    emit([S EXCEPT !.readyState = OPEN, !.conns[c] = SetPhase(@, "open")], OpenEvent)

onResponse(S0, c, status, location) ==
    LET S == [S0 EXCEPT !.connectionInProgress = FALSE]
    IN  IF status \in {500, 502, 503, 504} THEN onRetryableStatus(S, c, status)
        ELSE IF status \in {301, 302, 307} THEN onRedirectStatus(S, c, status, location)
        ELSE IF status # 200 THEN onOtherStatus(S, c, status)
        ELSE onOkStatus(S, c)

(* Every parsed event goes through _emit, in order.                       *)
RECURSIVE emitAll(_, _)
emitAll(S, evs) == IF evs = <<>> THEN S ELSE emitAll(emit(S, Head(evs)), Tail(evs))

(* The 'data' handler of the response of request c.                       *)
onChunk(S, c, chunk) ==
    LET s1 == onData([isFirst |-> S.conns[c].isFirst, buf |-> S.conns[c].buf,
                      startingPos |-> S.conns[c].startingPos,
                      startingFieldLength |-> S.conns[c].startingFieldLength,
                      discardTrailingNewline |-> S.discardTrailingNewline,
                      data |-> S.data, eventName |-> S.eventName,
                      lastEventId |-> S.lastEventId,
                      reconnectInterval |-> S.reconnectInterval, ev |-> <<>>], chunk)
    IN  emitAll([S EXCEPT !.conns[c] = [st |-> "open", isFirst |-> s1.isFirst,
                                        buf |-> s1.buf, startingPos |-> s1.startingPos,
                                        startingFieldLength |-> s1.startingFieldLength],
                          !.discardTrailingNewline = s1.discardTrailingNewline,
                          !.data = s1.data, !.eventName = s1.eventName,
                          !.lastEventId = s1.lastEventId,
                          !.reconnectInterval = s1.reconnectInterval],
                s1.ev)

(* The request's 'error' handler.                                         *)
onRequestError(S, c) ==
    onConnectionClosed(
        [S EXCEPT !.connectionInProgress = FALSE,
                  !.conns[c] = IF @.st = "open" THEN SetPhase(@, "closing")
                               ELSE SetPhase(@, "dead")],
        "err.message")

(* The response's 'close' and 'end' handlers: both listeners are removed. *)
onResponseClosed(S, c) ==
    onConnectionClosed([S EXCEPT !.conns[c] = SetPhase(@, "dead")], "undefined")

(* The callback given to setTimeout by onConnectionClosed.                *)
onTimer(S) ==
    IF S.readyState # CONNECTING \/ S.connectionInProgress THEN S
    ELSE connect([S EXCEPT !.connectionInProgress = TRUE], "timer")

Remove(ts, i) == SubSeq(ts, 1, i - 1) \o SubSeq(ts, i + 1, Len(ts))

(* ---------------------------------------------------------------------- *)
(* The body bytes the transport delivers to a session, and what they say  *)
(* read line by line (every chunk here is whole LF-terminated lines).     *)
(* ---------------------------------------------------------------------- *)
ChunkId1 == StrId \o <<colon, 49, lineFeed>>
ChunkId1IdEmpty == StrId \o <<colon, 49, lineFeed>> \o StrId \o <<colon, lineFeed>>
ChunkRetry5 == StrRetry \o <<colon, space, 53, lineFeed>>
ChunkRetryBad == StrRetry \o <<colon, 120, lineFeed>>
ChunkDataX == StrData \o <<colon, 120, lineFeed, lineFeed>>
Chunks == {ChunkId1, ChunkId1IdEmpty, ChunkRetry5, ChunkRetryBad, ChunkDataX}

(* the lines of a chunk of whole LF-terminated lines *)
RECURSIVE LinesOf(_, _)
LinesOf(bytes, line) ==
    IF bytes = <<>> THEN <<>>
    ELSE IF bytes[1] = lineFeed THEN <<line>> \o LinesOf(Tail(bytes), <<>>)
    ELSE LinesOf(Tail(bytes), Append(line, bytes[1]))

RECURSIVE ColonAt(_, _)
ColonAt(line, i) ==
    IF i > Len(line) THEN 0 ELSE IF line[i] = colon THEN i ELSE ColonAt(line, i + 1)

FieldName(line) ==
    IF ColonAt(line, 1) = 0 THEN line ELSE SubSeq(line, 1, ColonAt(line, 1) - 1)

FieldValue(line) ==
    LET k == ColonAt(line, 1)
    IN  IF k = 0 THEN <<>>
        ELSE IF k < Len(line) /\ line[k + 1] = space THEN SubSeq(line, k + 2, Len(line))
        ELSE SubSeq(line, k + 1, Len(line))

AllDigits(v) == v # <<>> /\ \A i \in 1..Len(v) : IsDigit(v[i])

(* seen, after the lines ls: the value of the last id: line, the last     *)
(* non-empty one, and the last retry: value that is a decimal number.     *)
RECURSIVE SeenAfter(_, _)
SeenAfter(sn, ls) ==
    IF ls = <<>> THEN sn
    ELSE LET l == Head(ls)
             v == FieldValue(l)
             sn1 == IF ColonAt(l, 1) > 0 /\ FieldName(l) = StrId
                    THEN [sn EXCEPT !.id = v,
                                    !.idNonEmpty = IF v # <<>> THEN v ELSE @]
                    ELSE IF ColonAt(l, 1) > 0 /\ FieldName(l) = StrRetry /\ AllDigits(v)
                    THEN [sn EXCEPT !.retry = DigitsValue(v, 0)]
                    ELSE sn
         IN  SeenAfter(sn1, Tail(ls))

(* ---------------------------------------------------------------------- *)
(* Initial state: the state the constructor leaves, its connect() done.   *)
(* ---------------------------------------------------------------------- *)
(* ---------------------------------------------------------------------- *)
(* The request options connect() builds from eventSourceInitDict.         *)
(* A JavaScript flag is "undefined", "true" or "false".                   *)
(* ---------------------------------------------------------------------- *)
Flags == {"undefined", "true", "false"}
Truthy(v) == v = "true"
Not(b) == IF b THEN "false" ELSE "true"

(* eventSourceInitDict: absent, or an object with or without              *)
(* rejectUnauthorized, https (with or without its own                     *)
(* rejectUnauthorized), withCredentials, headers and proxy.               *)
NoDict == [present |-> FALSE, rejectUnauthorized |-> "undefined", https |-> FALSE,
           httpsRejectUnauthorized |-> "undefined", withCredentials |-> "undefined",
           headers |-> FALSE, proxy |-> FALSE]
InitDicts ==
    {NoDict} \cup [present : {TRUE}, rejectUnauthorized : Flags, https : BOOLEAN,
                   httpsRejectUnauthorized : Flags, withCredentials : Flags,
                   headers : BOOLEAN, proxy : BOOLEAN]

NoOptions == [built |-> FALSE, rejectUnauthorized |-> "undefined",
              withCredentials |-> "undefined", viaProxy |-> FALSE]

(* the legacy flag: !(eventSourceInitDict && !eventSourceInitDict.rejectUnauthorized) *)
legacyRejectUnauthorized(dict) == Not(dict.present /\ ~Truthy(dict.rejectUnauthorized))

(* the https options merge: an option of the allow-list that is not       *)
(* undefined replaces the one set before                                  *)
mergeHttpsOptions(dict, value) ==
    IF dict.present /\ dict.https /\ dict.httpsRejectUnauthorized # "undefined"
    THEN dict.httpsRejectUnauthorized ELSE value

requestOptions(dict) ==
    [built |-> TRUE,
     rejectUnauthorized |-> mergeHttpsOptions(dict, legacyRejectUnauthorized(dict)),
     withCredentials |-> IF dict.present /\ dict.withCredentials # "undefined"
                         THEN dict.withCredentials ELSE "undefined",
     viaProxy |-> dict.present /\ dict.proxy]

OptionsIdle ==
    /\ initDict = NoDict
    /\ options = NoOptions

(* redir: the status and the Location of the last redirect followed, and  *)
(* the url in effect before the last 307 followed.                        *)
NoRedir == [last |-> 0, to |-> null, from307 |-> null]

ParserIdle ==
    /\ plines = <<>>
    /\ pstream = <<>>
    /\ prest = <<>>
    /\ pstate = NewParse(<<>>)
    /\ OptionsIdle

Constructed(id0, ls, ec) ==
    /\ readyState = CONNECTING
    /\ url = "A"
    /\ reconnectUrl = null
    /\ lastEventId = id0
    /\ reconnectInterval = DefaultReconnectInterval
    /\ connectionInProgress = FALSE
    /\ req = 1
    /\ discardTrailingNewline = FALSE
    /\ data = <<>>
    /\ eventName = <<>>
    /\ conns = <<NewConn>>
    /\ timers = <<>>
    /\ nextTick = 0
    /\ listeners = ls
    /\ errorCloses = ec
    /\ out = <<>>
    /\ lastReq = [url |-> "A", lastEventId |-> LastEventIdHeader(id0),
                  by |-> "constructor"]
    /\ fed = 0
    /\ closeCalled = FALSE
    /\ seen = [id |-> id0, idNonEmpty |-> id0, retry |-> DefaultReconnectInterval]
    /\ fatal = FALSE
    /\ redir = NoRedir
    /\ failedAt = 0

(* new EventSource(url) or new EventSource(url, {headers: ...}) without a *)
(* Last-Event-ID header; no subscriber, or subscribers of every type, the *)
(* error subscriber calling close() or not.                               *)
Init ==
    /\ \E ls \in {{}, AllTypes} : \E ec \in {FALSE, ls # {}} : Constructed(<<>>, ls, ec)
    /\ ParserIdle

(* ---------------------------------------------------------------------- *)
(* Actions: one per callback.  A process.nextTick callback runs before    *)
(* any I/O or timer callback; a timer (of at least 1 ms) does not fire    *)
(* between the destruction of a socket and the callbacks that reports it. *)
(* ---------------------------------------------------------------------- *)
TearingDown == \E c \in 1..Len(conns) : conns[c].st \in {"closing", "abAwait"}

Retryable == {500, 502, 503, 504}
Redirects == {301, 302, 307}

Response(c, status, location) ==
    /\ nextTick = 0
    /\ conns[c].st = "await"
    /\ (status \in Redirects /\ location # null) => Len(conns) < MaxRequests
    /\ (location # null) => status \in Redirects
    /\ Commit(onResponse(Cur, c, status, location))
    /\ fatal' = (fatal \/ status \notin ({200} \cup Retryable \cup Redirects))
    /\ redir' = IF status \in Redirects /\ location # null
                THEN [last |-> status, to |-> location,
                      from307 |-> IF status = 307 THEN url ELSE redir.from307]
                ELSE IF status \in Retryable /\ readyState # CLOSED
                        /\ ~(StrError \in listeners /\ errorCloses)
                THEN NoRedir
                ELSE redir
    /\ failedAt' = IF status \in Retryable /\ readyState # CLOSED
                   THEN Len(conns) ELSE failedAt
    /\ UNCHANGED <<fed, seen, pvars>>

RequestError(c) ==
    /\ nextTick = 0
    /\ conns[c].st \in {"await", "open", "idle", "abAwait"}
    /\ Commit(onRequestError(Cur, c))
    /\ redir' = IF readyState # CLOSED THEN NoRedir ELSE redir
    /\ failedAt' = IF conns[c].st = "await" /\ readyState # CLOSED
                   THEN Len(conns) ELSE failedAt
    /\ UNCHANGED <<fed, seen, fatal, pvars>>

ResponseEnd(c) ==
    /\ nextTick = 0
    /\ conns[c].st = "open"
    /\ Commit(onResponseClosed(Cur, c))
    /\ redir' = IF readyState # CLOSED THEN NoRedir ELSE redir
    /\ failedAt' = IF readyState # CLOSED THEN Len(conns) ELSE failedAt
    /\ UNCHANGED <<fed, seen, fatal, pvars>>

ResponseClose(c) ==
    /\ nextTick = 0
    /\ conns[c].st = "closing"
    /\ Commit(onResponseClosed(Cur, c))
    /\ redir' = IF readyState # CLOSED THEN NoRedir ELSE redir
    /\ failedAt' = IF readyState # CLOSED THEN Len(conns) ELSE failedAt
    /\ UNCHANGED <<fed, seen, fatal, pvars>>

Data(c, chunk) ==
    /\ nextTick = 0
    /\ conns[c].st = "open"
    /\ fed < MaxChunks
    /\ Commit(onChunk(Cur, c, chunk))
    /\ fed' = fed + 1
    /\ seen' = SeenAfter(seen, LinesOf(chunk, <<>>))
    /\ UNCHANGED <<fatal, redir, failedAt, pvars>>

TimerFires(i) ==
    /\ nextTick = 0
    /\ ~TearingDown
    /\ IF i = 1 THEN TRUE ELSE timers[i] # timers[i - 1]
    /\ (readyState = CONNECTING /\ ~connectionInProgress) => Len(conns) < MaxRequests
    /\ Commit(onTimer([Cur EXCEPT !.timers = Remove(@, i)]))
    /\ UNCHANGED <<fed, seen, fatal, redir, failedAt, pvars>>

NextTickConnect ==
    /\ nextTick > 0
    /\ Len(conns) < MaxRequests
    /\ Commit(connect([Cur EXCEPT !.nextTick = @ - 1], "redirect"))
    /\ UNCHANGED <<fed, seen, fatal, redir, failedAt, pvars>>

Close ==
    /\ readyState # CLOSED
    /\ Commit(close(Cur))
    /\ UNCHANGED <<fed, seen, fatal, redir, failedAt, pvars>>

(* The lifecycle: every response status, redirects, close() at any time. *)
Next ==
    \/ \E c \in 1..Len(conns), status \in StatusCodes, location \in Locations \cup {null} :
          Response(c, status, location)
    \/ \E c \in 1..Len(conns) : RequestError(c)
    \/ \E c \in 1..Len(conns) : ResponseEnd(c)
    \/ \E c \in 1..Len(conns) : ResponseClose(c)
    \/ \E i \in 1..Len(timers) : TimerFires(i)
    \/ NextTickConnect
    \/ Close

Spec == Init /\ [][Next]_vars

(* The lifecycle with body bytes: a server that answers 200 or 503 and    *)
(* streams chunks, subscribers that only listen.                          *)
(* with or without headers['Last-Event-ID'] = '0' in the init dictionary   *)
InitBody ==
    /\ \E id0 \in {<<>>, <<48>>} : Constructed(id0, AllTypes, FALSE)
    /\ ParserIdle

NextBody ==
    \/ \E c \in 1..Len(conns), status \in {200, 503} : Response(c, status, null)
    \/ \E c \in 1..Len(conns) : RequestError(c)
    \/ \E c \in 1..Len(conns) : ResponseEnd(c)
    \/ \E c \in 1..Len(conns) : ResponseClose(c)
    \/ \E c \in 1..Len(conns), chunk \in Chunks : Data(c, chunk)
    \/ \E i \in 1..Len(timers) : TimerFires(i)

SpecBody == InitBody /\ [][NextBody]_vars

(* The lifecycle with bodies that stop in the middle of an event: a data: *)
(* line, an event: line or a line ended by CR, with no blank line after   *)
(* it, then the end of the stream.                                        *)
ChunkDataLine == StrData \o <<colon, 120, lineFeed>>
ChunkEventE == StrEvent \o <<colon, 101, lineFeed>>
ChunkDataCR == StrData \o <<colon, 120, carriageReturn>>
CarryChunks == {ChunkDataLine, ChunkEventE, ChunkDataCR, ChunkDataX}

NextCarry ==
    \/ \E c \in 1..Len(conns), status \in {200, 503} : Response(c, status, null)
    \/ \E c \in 1..Len(conns) : RequestError(c)
    \/ \E c \in 1..Len(conns) : ResponseEnd(c)
    \/ \E c \in 1..Len(conns) : ResponseClose(c)
    \/ \E c \in 1..Len(conns), chunk \in CarryChunks : Data(c, chunk)
    \/ \E i \in 1..Len(timers) : TimerFires(i)

SpecCarry == InitBody /\ [][NextCarry]_vars

(* The lifecycle without redirects: a server that answers 200, 404 or    *)
(* 503, and close() at any time.                                          *)
NextClose ==
    \/ \E c \in 1..Len(conns), status \in {200, 404, 503} : Response(c, status, null)
    \/ \E c \in 1..Len(conns) : RequestError(c)
    \/ \E c \in 1..Len(conns) : ResponseEnd(c)
    \/ \E c \in 1..Len(conns) : ResponseClose(c)
    \/ \E i \in 1..Len(timers) : TimerFires(i)
    \/ Close

SpecClose == Init /\ [][NextClose]_vars

(* The lifecycle of a session whose subscribers only listen: a server    *)
(* that answers 200, 301 (with or without Location), 404 or 503 and       *)
(* streams events, a transport that fails only while a request awaits its *)
(* response or its stream is open.                                        *)
InitElide ==
    /\ Constructed(<<>>, AllTypes, FALSE)
    /\ ParserIdle

ElideStatuses == {200, 301, 404, 503}
ElideLocations == {null, "B"}
ElideChunks == {ChunkId1, ChunkDataX}

NextElide ==
    \/ \E c \in 1..Len(conns), status \in ElideStatuses, location \in ElideLocations :
          Response(c, status, location)
    \/ \E c \in 1..Len(conns) : conns[c].st \in {"await", "open"} /\ RequestError(c)
    \/ \E c \in 1..Len(conns) : ResponseEnd(c)
    \/ \E c \in 1..Len(conns) : ResponseClose(c)
    \/ \E c \in 1..Len(conns), chunk \in ElideChunks : Data(c, chunk)
    \/ \E i \in 1..Len(timers) : TimerFires(i)
    \/ NextTickConnect

SpecElide == InitElide /\ [][NextElide]_vars

(* The lifecycle when close() is never called by the user or by a        *)
(* subscriber, with fair timers and a fair transport: a pending timer     *)
(* fires, a deferred connect() runs, a request awaiting its response gets *)
(* a response or an error, a destroyed socket's close is reported.  An    *)
(* open stream may stay open for ever.                                    *)
InitFair ==
    /\ \E ls \in {{}, AllTypes} : Constructed(<<>>, ls, FALSE)
    /\ ParserIdle

TimerStep == \E i \in 1..Len(timers) : TimerFires(i)

AnswerStep ==
    \E c \in 1..Len(conns) :
        /\ conns[c].st = "await"
        /\ \/ \E status \in StatusCodes, location \in Locations \cup {null} :
                 Response(c, status, location)
           \/ RequestError(c)

TeardownStep == \E c \in 1..Len(conns) : ResponseClose(c)

NextFair ==
    \/ \E c \in 1..Len(conns), status \in StatusCodes, location \in Locations \cup {null} :
          Response(c, status, location)
    \/ \E c \in 1..Len(conns) : RequestError(c)
    \/ \E c \in 1..Len(conns) : ResponseEnd(c)
    \/ \E c \in 1..Len(conns) : ResponseClose(c)
    \/ \E i \in 1..Len(timers) : TimerFires(i)
    \/ NextTickConnect

FairSpec ==
    /\ InitFair
    /\ [][NextFair]_vars
    /\ WF_vars(TimerStep)
    /\ WF_vars(NextTickConnect)
    /\ WF_vars(AnswerStep)
    /\ WF_vars(TeardownStep)

(* The parser alone: one response body, cut into chunks at any offsets. *)
(* The body is up to MaxLines lines, each a text of PTexts ended by LF,   *)
(* CR or CRLF, with or without a leading byte-order mark.                 *)
TextDataX == StrData \o <<colon, 120>>
TextEventE == StrEvent \o <<colon, 101>>
TextId1 == StrId \o <<colon, 49>>
TextComment == <<colon, 99>>
PTexts == {<<>>, TextDataX, TextEventE, TextId1, TextComment}
PTerms == {<<lineFeed>>, <<carriageReturn>>, <<carriageReturn, lineFeed>>}
PLine == [text : PTexts, term : PTerms]

RECURSIVE BytesOf(_)
BytesOf(ls) == IF ls = <<>> THEN <<>> ELSE Head(ls).text \o Head(ls).term \o BytesOf(Tail(ls))

(* a CR-ended line followed by an LF-ended blank line would read as one   *)
(* CRLF-ended line: such a list does not describe its own bytes           *)
Canonical(ls) ==
    \A i \in 1..(Len(ls) - 1) :
        ~(ls[i].term = <<carriageReturn>> /\ ls[i + 1] = [text |-> <<>>, term |-> <<lineFeed>>])

InitParseOf(lines, boms) ==
    /\ Constructed(<<>>, {}, FALSE)
    /\ \E n \in 0..MaxLines : plines \in [1..n -> lines]
    /\ Canonical(plines)
    /\ \E withBom \in boms :
           pstream = (IF withBom THEN bom ELSE <<>>) \o BytesOf(plines)
    /\ prest = pstream
    /\ pstate = NewParse(<<>>)
    /\ OptionsIdle

InitParse == InitParseOf(PLine, BOOLEAN)

(* the transport delivers the next k bytes as one chunk *)
Feed(k) ==
    /\ pstate' = onData(pstate, SubSeq(prest, 1, k))
    /\ prest' = SubSeq(prest, k + 1, Len(prest))
    /\ UNCHANGED <<plines, pstream, initDict, options, svars>>

NextParse == \E k \in 1..Len(prest) : Feed(k)

SpecParse == InitParse /\ [][NextParse]_vars

(* The parser on LF-ended lines with and without a colon, no byte-order   *)
(* mark.                                                                  *)
NoColonTexts == {<<>>, StrData, StrEvent, StrId, TextDataX, TextEventE, TextId1}
NoColonLine == [text : NoColonTexts, term : {<<lineFeed>>}]

InitNoColon == InitParseOf(NoColonLine, {FALSE})

SpecNoColon == InitNoColon /\ [][NextParse]_vars

(* The request options alone: any init dictionary, then connect() builds *)
(* the options of the first request.                                      *)
InitOptions ==
    /\ Constructed(<<>>, {}, FALSE)
    /\ plines = <<>>
    /\ pstream = <<>>
    /\ prest = <<>>
    /\ pstate = NewParse(<<>>)
    /\ initDict \in InitDicts
    /\ (~initDict.https => initDict.httpsRejectUnauthorized = "undefined")
    /\ options = NoOptions

BuildOptions ==
    /\ ~options.built
    /\ options' = requestOptions(initDict)
    /\ UNCHANGED <<plines, pstream, prest, pstate, initDict, svars>>

SpecOptions == InitOptions /\ [][BuildOptions]_vars

(* The lifecycle against a server that answers every request with a      *)
(* 301, 302 or 307 and a Location: the response arrives, the deferred     *)
(* connect() runs.                                                        *)
RedirectStep ==
    \E c \in 1..Len(conns), status \in Redirects, location \in Locations :
        Response(c, status, location)

NextRedirect ==
    \/ RedirectStep
    \/ NextTickConnect

SpecRedirect ==
    /\ InitFair
    /\ [][NextRedirect]_vars
    /\ WF_vars(RedirectStep)
    /\ WF_vars(NextTickConnect)

(* ====================================================================== *)
(* Claims                                                                 *)
(* ====================================================================== *)
NumRequests == Len(conns)
Active(c) == conns[c].st \in {"await", "open"}
ErrorOut(e) == IF StrError \in listeners THEN <<e>> ELSE <<>>

(* C1: once readyState is CLOSED it stays CLOSED and no request is issued *)
(* afterwards, whatever callback runs next.                               *)
C1_ClosedIsTerminal ==
    [][readyState = CLOSED => (readyState' = CLOSED /\ NumRequests' = NumRequests)]_vars

(* C2: at most one transport connection (a request awaiting its response  *)
(* or an open response stream) is active at a time.                       *)
C2_AtMostOneActive ==
    Cardinality({c \in 1..Len(conns) : Active(c)}) <= 1

(* C4: a response with a status other than 200, 500/502/503/504 and       *)
(* 301/302/307 dispatches one error with the status, makes readyState     *)
(* CLOSED and schedules no timer; no request is issued from then on.      *)
C4_FatalStatusEndsSession ==
    [][ /\ \A c \in 1..Len(conns), status \in StatusCodes \ ({200} \cup Retryable \cup Redirects) :
              Response(c, status, null) =>
                  /\ out' = ErrorOut(StatusErrorEvent(status))
                  /\ readyState' = CLOSED
                  /\ timers' = timers
                  /\ nextTick' = nextTick
                  /\ NumRequests' = NumRequests
        /\ fatal => (NumRequests' = NumRequests /\ Len(timers') <= Len(timers))
      ]_vars

(* C10: a 301/302/307 response without Location dispatches one error with *)
(* the status and changes neither readyState (unless the subscriber       *)
(* itself calls close()) nor url, schedules no timer and issues no        *)
(* request, now or by a deferred connect.                                 *)
C10_RedirectWithoutLocationStalls ==
    [][\A c \in 1..Len(conns), status \in Redirects :
           Response(c, status, null) =>
               /\ out' = ErrorOut(StatusErrorEvent(status))
               /\ readyState' = IF StrError \in listeners /\ errorCloses
                                THEN CLOSED ELSE readyState
               /\ url' = url
               /\ reconnectUrl' = reconnectUrl
               /\ timers' = timers
               /\ nextTick' = nextTick
               /\ NumRequests' = NumRequests
      ]_vars

C10_Witness ==
    /\ out = <<StatusErrorEvent(301)>>
    /\ NumRequests = 1
    /\ conns[1].st = "idle"
    /\ readyState = CONNECTING
    /\ url = "A"
    /\ timers = <<>>
    /\ nextTick = 0

(* A disconnect: a 500/502/503/504 response, a transport error, or the    *)
(* end or close of a response stream.                                      *)
Disconnect ==
    \E c \in 1..Len(conns) :
        \/ RequestError(c)
        \/ ResponseEnd(c)
        \/ ResponseClose(c)
        \/ \E status \in Retryable : Response(c, status, null)

FollowsRedirect ==
    /\ \A c \in 1..Len(conns), location \in Locations :
           Response(c, 307, location) =>
               (url' = location /\ timers' = timers /\ nextTick' = nextTick + 1)
    /\ NextTickConnect =>
           (NumRequests' = NumRequests + 1 /\ lastReq'.url = redir.to /\ timers' = timers)

(* C9 as stated: after a 307 with Location the next request goes to the   *)
(* Location without a timer; the following disconnect restores url to the *)
(* one before the redirect and clears reconnectUrl; after a 301 or 302    *)
(* the disconnect never changes url.                                      *)
C9_AsStated ==
    [][ /\ FollowsRedirect
        /\ (Disconnect /\ readyState' # CLOSED) =>
               /\ reconnectUrl' = null
               /\ url' = IF redir.last = 307 THEN redir.from307 ELSE url
      ]_vars

(* C9 amended: the disconnect restores the url in effect before the last  *)
(* 307 followed since the previous disconnect, also when 301/302          *)
(* redirects were followed after that 307; with no such 307, url stays.   *)
C9_RestoresUrlBefore307 ==
    [][ /\ FollowsRedirect
        /\ (Disconnect /\ readyState' # CLOSED) =>
               /\ reconnectUrl' = null
               /\ url' = IF redir.from307 # null THEN redir.from307 ELSE url
      ]_vars

(* the url was restored by a disconnect after a 307 to B; after a 301 the *)
(* disconnect left the url alone                                          *)
C9_Witness ==
    /\ lastReq = [url |-> "B", lastEventId |-> undefined, by |-> "redirect"]
    /\ NumRequests = 2
    /\ conns[2].st = "dead"
    /\ url = "A"
    /\ reconnectUrl = null
    /\ redir = NoRedir
    /\ Len(timers) = 1
    /\ readyState = CONNECTING

(* C3: after a retryable failure (a 500/502/503/504 response, a transport *)
(* error before a response, the end or close of a response stream)        *)
(* readyState is CONNECTING, and a new request is eventually issued       *)
(* unless the session closes itself on a later response.                  *)
C3_FailureLeadsToRetry ==
    /\ [][failedAt' # failedAt => readyState' = CONNECTING]_vars
    /\ \A k \in 1..(MaxRequests - 1) :
           (failedAt = k) ~> (NumRequests > k \/ readyState = CLOSED)

(* What a response body leaves behind: the events dispatched, in order,   *)
(* lastEventId and reconnectInterval.                                     *)
Outcome(s) == <<s.ev, s.lastEventId, s.reconnectInterval>>

(* C5: however the body is cut into chunks, the outcome is that of the    *)
(* whole body delivered as one chunk.                                     *)
C5_ChunkBoundaryInvariance ==
    prest = <<>> => Outcome(pstate) = Outcome(onData(NewParse(<<>>), pstream))

(* The events a well-formed body describes: every blank line ends an      *)
(* event whose data is its data: values joined by a newline.              *)
IsData(l) == ColonAt(l.text, 1) > 0 /\ FieldName(l.text) = StrData

RECURSIVE DataOfEvents(_, _, _)
DataOfEvents(ls, cur, has) ==
    IF ls = <<>> THEN <<>>
    ELSE IF Head(ls).text = <<>> THEN
        (IF has THEN <<cur>> ELSE <<>>) \o DataOfEvents(Tail(ls), <<>>, FALSE)
    ELSE IF IsData(Head(ls)) THEN
        DataOfEvents(Tail(ls),
                     IF has THEN cur \o <<lineFeed>> \o FieldValue(Head(ls).text)
                     ELSE FieldValue(Head(ls).text),
                     TRUE)
    ELSE DataOfEvents(Tail(ls), cur, has)

(* well-formed: groups of non-blank lines with at least one data: line,   *)
(* each ended by one blank line                                           *)
RECURSIVE WellFormed(_, _, _)
WellFormed(ls, has, open) ==
    IF ls = <<>> THEN ~open
    ELSE IF Head(ls).text = <<>> THEN has /\ WellFormed(Tail(ls), FALSE, FALSE)
    ELSE WellFormed(Tail(ls), has \/ IsData(Head(ls)), TRUE)

DataOf(evs) == [i \in 1..Len(evs) |-> evs[i].data]

(* C6: a well-formed body of N events dispatches exactly N events, in     *)
(* order, each with its data: values joined by a newline.                 *)
C6_WellFormedBodyDispatchesItsEvents ==
    (prest = <<>> /\ plines # <<>> /\ WellFormed(plines, FALSE, FALSE))
        => DataOf(pstate.ev) = DataOfEvents(plines, <<>>, FALSE)

(* C7 as stated: the Last-Event-ID header of every reconnect request is   *)
(* the last non-empty id: value seen so far in the session (the header    *)
(* given to the constructor while none was seen), id: lines with an empty *)
(* value changing nothing.                                                *)
C7_AsStated ==
    [][NumRequests' > NumRequests =>
           lastReq'.lastEventId = LastEventIdHeader(seen.idNonEmpty)]_vars

(* C7 amended: the Last-Event-ID header of every reconnect request is the *)
(* value of the last id: line seen so far in the session (the header      *)
(* given to the constructor while none was seen); an id: line with an     *)
(* empty value resets it, and the request then carries no such header.    *)
C7_HeaderIsLastIdLine ==
    [][NumRequests' > NumRequests =>
           lastReq'.lastEventId = LastEventIdHeader(seen.id)]_vars

(* a reconnect request without the header, after id:1 and then an empty   *)
(* id: were read                                                          *)
C7_Witness ==
    /\ lastReq.by = "timer"
    /\ NumRequests >= 2
    /\ seen.idNonEmpty = <<49>>
    /\ seen.id = <<>>
    /\ lastReq.lastEventId = undefined

C11_ParseStateIsPerConnection ==
    [][NumRequests' > NumRequests =>
           /\ data' = <<>>
           /\ eventName' \in {<<>>, undefined}
           /\ discardTrailingNewline' = FALSE
           /\ conns'[NumRequests'] = NewConn]_vars

(* C12: once close() was called, no callback that fires later dispatches  *)
(* an event, changes readyState, url, the pending redirect url,           *)
(* lastEventId or reconnectInterval, arms a timer or issues a request.    *)
C12_CallbacksAfterCloseAreNoOps ==
    [][(closeCalled /\ ~Close) =>
           /\ out' = <<>>
           /\ readyState' = readyState
           /\ url' = url
           /\ reconnectUrl' = reconnectUrl
           /\ lastEventId' = lastEventId
           /\ reconnectInterval' = reconnectInterval
           /\ Len(timers') <= Len(timers)
           /\ NumRequests' = NumRequests]_vars

(* C13: at most one reconnect timer is pending at any time.               *)
C13_AtMostOneTimer == Len(timers) <= 1

(* The session without what is told to subscribers and without the        *)
(* subscriptions themselves.                                              *)
Machine(S) == [S EXCEPT !.out = <<>>, !.listeners = {}]

SubscriberSets == {{}, {StrError}, AllTypes \ {StrError}}

(* C14: whatever callback runs next, with whatever input, the session     *)
(* that has other subscriptions (subscribers that only listen) goes to    *)
(* the same readyState, url, lastEventId, reconnectInterval, pending      *)
(* redirect url, requests, timers and parse state.                        *)
C14_ElisionLeavesTheMachineAlone ==
    \A L \in SubscriberSets :
        LET T == [Cur EXCEPT !.listeners = L]
        IN  /\ \A c \in 1..Len(conns) :
                   /\ conns[c].st = "await" =>
                          \A status \in ElideStatuses, location \in ElideLocations :
                              (location # null => status \in Redirects) =>
                                  Machine(onResponse(T, c, status, location))
                                      = Machine(onResponse(Cur, c, status, location))
                   /\ conns[c].st = "open" =>
                          /\ \A chunk \in ElideChunks :
                                 Machine(onChunk(T, c, chunk)) = Machine(onChunk(Cur, c, chunk))
                          /\ Machine(onResponseClosed(T, c)) = Machine(onResponseClosed(Cur, c))
                   /\ conns[c].st \in {"await", "open", "idle", "abAwait"} =>
                          Machine(onRequestError(T, c)) = Machine(onRequestError(Cur, c))
            /\ Len(timers) > 0 => Machine(onTimer(T)) = Machine(onTimer(Cur))
            /\ nextTick > 0 =>
                   Machine(connect(T, "redirect")) = Machine(connect(Cur, "redirect"))

(* a message event was dispatched to its subscriber on the second         *)
(* connection of the session                                              *)
C14_Witness ==
    /\ NumRequests >= 2
    /\ readyState = OPEN
    /\ Len(out) = 1
    /\ out[1].type = StrMessage
    /\ lastEventId = <<49>>

(* C15: the rejectUnauthorized option of the request is                   *)
(* https.rejectUnauthorized when one is given, else the top-level         *)
(* rejectUnauthorized when one is given, else true.                       *)
C15_RejectUnauthorizedDefault ==
    options.built =>
        options.rejectUnauthorized =
            IF initDict.present /\ initDict.https
               /\ initDict.httpsRejectUnauthorized # "undefined"
            THEN initDict.httpsRejectUnauthorized
            ELSE IF initDict.present /\ initDict.rejectUnauthorized # "undefined"
            THEN initDict.rejectUnauthorized
            ELSE "true"

(* What a body of complete lines leaves behind when a line without a      *)
(* colon is a field with an empty value: the pending data, the pending    *)
(* event name, lastEventId and the data of the events dispatched.         *)
RECURSIVE ReadAs(_, _)
ReadAs(ls, r) ==
    IF ls = <<>> THEN r
    ELSE LET l == Head(ls).text
             r1 == IF l = <<>> THEN
                       [r EXCEPT !.evs = IF r.data # <<>>
                                         THEN Append(@, SubSeq(r.data, 1, Len(r.data) - 1))
                                         ELSE @,
                                 !.data = <<>>,
                                 !.eventName = <<>>]
                   ELSE IF FieldName(l) = StrData THEN
                       [r EXCEPT !.data = @ \o FieldValue(l) \o <<lineFeed>>]
                   ELSE IF FieldName(l) = StrEvent THEN [r EXCEPT !.eventName = FieldValue(l)]
                   ELSE IF FieldName(l) = StrId THEN [r EXCEPT !.lastEventId = FieldValue(l)]
                   ELSE r
         IN  ReadAs(Tail(ls), r1)

(* C16: a line without a colon is a field with an empty value: `data`     *)
(* appends a newline to the pending data, `event` empties the pending     *)
(* event name, `id` empties lastEventId.                                  *)
C16_LineWithoutColonIsAField ==
    prest = <<>> =>
        [data |-> pstate.data,
         eventName |-> IF pstate.eventName = undefined THEN <<>> ELSE pstate.eventName,
         lastEventId |-> pstate.lastEventId,
         evs |-> DataOf(pstate.ev)]
            = ReadAs(plines, [data |-> <<>>, eventName |-> <<>>, lastEventId |-> <<>>,
                              evs |-> <<>>])

(* C17: an event's type is the value of the last event: line since the    *)
(* previous blank line on the same connection, and "message" when there   *)
(* is none: a connection whose body starts with a data: line and a blank  *)
(* line dispatches one event of type "message".                           *)
C17_TypeIsMessageWithoutEventLine ==
    [][\A c \in 1..Len(conns) :
           (conns[c].isFirst /\ Data(c, ChunkDataX)) =>
               (Len(out') = 1 /\ out'[1].type = StrMessage)]_vars

(* C18: a 500/502/503/504 response dispatches to an error subscriber one  *)
(* error with the status and then one without, and arms one timer; if the *)
(* subscriber calls close() on the first error, the second error and the  *)
(* timer are left out.                                                     *)
C18_TwoErrorsThenOneTimer ==
    [][\A c \in 1..Len(conns), status \in Retryable :
           (Response(c, status, null) /\ StrError \in listeners) =>
               IF errorCloses
               THEN /\ out' = <<StatusErrorEvent(status)>>
                    /\ timers' = timers
               ELSE /\ out' = <<StatusErrorEvent(status), ErrorEvent("undefined")>>
                    /\ timers' = Insert(timers, reconnectInterval)
      ]_vars

(* C19: the pending redirect url is the url in effect before the most     *)
(* recent 307 followed since the last disconnect (after 307 A to B and    *)
(* 307 B to C it is B; after 307 A to B and 301 B to C it is A), and      *)
(* there is none when no 307 was followed.                                *)
C19_PendingUrlIsBeforeLast307 == reconnectUrl = redir.from307

(* two redirects followed from A, to B and then to C by a 307: the url to *)
(* restore is B                                                           *)
C19_Witness ==
    /\ NumRequests = 3
    /\ lastReq = [url |-> "C", lastEventId |-> undefined, by |-> "redirect"]
    /\ redir = [last |-> 307, to |-> "C", from307 |-> "B"]
    /\ url = "C"
    /\ reconnectUrl = "B"

(* C20: while every response is a 301/302/307 with a Location, readyState *)
(* stays CONNECTING, no event is dispatched, no timer is armed, and every *)
(* request is followed by another one (up to the bound on requests).      *)
C20_RedirectsAreFollowedWithoutEnd ==
    /\ [](readyState = CONNECTING /\ timers = <<>> /\ out = <<>>)
    /\ \A k \in 1..(MaxRequests - 1) : (NumRequests = k) ~> (NumRequests = k + 1)

(* as many requests as the bound allows, each but the first issued by a   *)
(* redirect, the session still CONNECTING                                 *)
C20_Witness ==
    /\ NumRequests = MaxRequests
    /\ lastReq.by = "redirect"
    /\ conns[NumRequests].st = "await"
    /\ \A c \in 1..(NumRequests - 1) : conns[c].st = "idle"
    /\ readyState = CONNECTING
    /\ timers = <<>>

====
